---- MODULE Spec2Model ----
(***************************************************************************)
(* Secret Santa Generator: the two scripts of the repository,              *)
(*   SecretSanta.py          (read_input_file, match_secret_santa,         *)
(*                            secret_santa)                                *)
(*   SecretSantaGenerator.py (readInputFile, validateEmail,                *)
(*                            validateInputData,                           *)
(*                            matchSecretSantaInCategory, main)            *)
(* modelled as state machines over one set of variables.                   *)
(*                                                                         *)
(* An email is a tuple of one-character strings, so that list.sort() is    *)
(* the lexicographic order on code points and validateEmail is the regex   *)
(* match.  A family or category tag is a natural number, 0 standing for    *)
(* the empty string: the code only tests tags for equality and for         *)
(* emptiness.  A Python dict is a sequence of records with distinct        *)
(* emails, in insertion order.                                             *)
(***************************************************************************)
EXTENDS Integers, Sequences, FiniteSets

VARIABLES
    prog,               \* which script runs
    pc,                 \* position of the running script
    participants,       \* the participants dict
    linesRead,          \* history: lines of the input file consumed so far
    dupRead,            \* history: some line repeated an email already read
    validation,         \* the (isValid, message) pair of validateInputData
    cohorts,            \* the per-category dicts, in order of first appearance
    cohortIdx,          \* the cohort being matched
    attempt,            \* the attempt index of the current cohort
    emails,             \* matchSecretSantaInCategory: senders in processing order
    idx,                \* matchSecretSantaInCategory: position of the sender loop
    matches,            \* matchSecretSantaInCategory: the mapping being built
    remainingReceivers, \* matchSecretSantaInCategory: receivers still available
    blocked,            \* history: the sender that found no candidate in this attempt
    ret,                \* value returned by the last matching function call
    allMatches,         \* mappings of the cohorts matched so far, merged
    outcome             \* how the run ended

vars == <<prog, pc, participants, linesRead, dupRead, validation, cohorts,
          cohortIdx, attempt, emails, idx, matches, remainingReceivers,
          blocked, ret, allMatches, outcome>>

----------------------------------------------------------------------------
(* Bounds of the model. *)

NumFamilies == 3
NumCategories == 2
MaxLines == 3
MaxAttempts == 3
MaxAttemptIndex == 13

----------------------------------------------------------------------------
(* Values. *)

\* Code points of the characters emails are made of.
Code(c) == CASE c = "." -> 46 [] c = "@" -> 64 [] c = "a" -> 97 [] c = "b" -> 98

\* Well-formed emails, and the pool the input file draws from (one is malformed).
Emails ==
    { <<"a","@","a",".","a","a">>,
      <<"a","@","b",".","a","a">>,
      <<"a","b","@","a",".","a","a">>,
      <<"b","@","a",".","a","a">>  }

BadEmail == <<"a","@","a",".","a">>

LoadEmails == { <<"a","@","a",".","a","a">>, <<"b","@","a",".","a","a">>, BadEmail }

Range(s) == { s[i] : i \in 1..Len(s) }

\* The lists without repeated elements over a set.
Orderings(S) ==
    { s \in [1..Cardinality(S) -> S] : \A i, j \in DOMAIN s : i # j => s[i] # s[j] }

\* A Python dict with no entries, and the value None.
EmptyMap == [e \in {} |-> e]
None == [none |-> TRUE, map |-> EmptyMap]
Some(m) == [none |-> FALSE, map |-> m]

\* Python truthiness of a returned dict-or-None (`if matches:`).
Truthy(r) == ~r.none /\ DOMAIN r.map # {}

\* dict.keys() as a list, and dict[email].
Keys(d) == [i \in 1..Len(d) |-> d[i].email]
Get(d, email) == d[CHOOSE i \in 1..Len(d) : d[i].email = email]

\* dict[email] = details: an existing key keeps its position.
DictSet(d, rec) ==
    IF rec.email \in Range(Keys(d))
    THEN [i \in 1..Len(d) |-> IF d[i].email = rec.email THEN rec ELSE d[i]]
    ELSE Append(d, rec)

\* The subsequence of s whose elements satisfy Test.
RECURSIVE SelectList(_, _)
SelectList(s, T) ==
    IF s = <<>> THEN <<>>
    ELSE IF Head(s) \in T THEN <<Head(s)>> \o SelectList(Tail(s), T)
         ELSE SelectList(Tail(s), T)

\* Mutant of Remove: the chosen receiver stays available.
Remove_Keep(s, x) == s

\* list.remove(x): drops the first occurrence.
RECURSIVE Remove(_, _)
Remove(s, x) ==
    IF s = <<>> THEN <<>>
    ELSE IF Head(s) = x THEN Tail(s) ELSE <<Head(s)>> \o Remove(Tail(s), x)

\* list.reverse().
Reverse(s) == [i \in 1..Len(s) |-> s[Len(s) + 1 - i]]

\* Python's str comparison: code point by code point, a proper prefix first.
RECURSIVE LexLess(_, _)
LexLess(s, t) ==
    IF t = <<>> THEN FALSE
    ELSE IF s = <<>> THEN TRUE
    ELSE IF Code(Head(s)) # Code(Head(t)) THEN Code(Head(s)) < Code(Head(t))
    ELSE LexLess(Tail(s), Tail(t))

\* list.sort() on a list of distinct strings.
Sorted(s) ==
    CHOOSE t \in Orderings(Range(s)) :
        \A i, j \in DOMAIN t : i < j => LexLess(t[i], t[j])

----------------------------------------------------------------------------
(* SecretSantaGenerator.py: validateEmail, validateInputData. *)

LocalChars == {"a", "b", "."}
DomainChars == {"a", "b", "."}
Letters == {"a", "b"}

\* re.match(r'^[a-zA-Z0-9._%+-]+@[a-zA-Z0-9.-]+\.[a-zA-Z]{2,}$', email)
validateEmail(email) ==
    \E at \in 2..Len(email), dot \in 1..Len(email) :
        /\ email[at] = "@"
        /\ \A i \in 1..(at - 1) : email[i] \in LocalChars
        /\ dot > at + 1
        /\ \A i \in (at + 1)..(dot - 1) : email[i] \in DomainChars
        /\ email[dot] = "."
        /\ Len(email) - dot >= 2
        /\ \A i \in (dot + 1)..Len(email) : email[i] \in Letters

\* The first check that the record at position i of the dict fails, "" if none.
RecordError(d, i) ==
    IF ~validateEmail(d[i].email) THEN "Invalid email format"
    ELSE IF d[i].email \in { d[j].email : j \in 1..(i - 1) } THEN "Duplicate email found"
    ELSE IF d[i].firstName = 0 \/ d[i].lastName = 0
            \/ d[i].family = 0 \/ d[i].category = 0 THEN "Missing field"
    ELSE ""

\* The elements of a list in order of first appearance.
RECURSIVE Dedup(_)
Dedup(s) ==
    IF s = <<>> THEN <<>>
    ELSE <<Head(s)>> \o Dedup(SelectList(Tail(s), Range(Tail(s)) \ {Head(s)}))

\* The keys of categoryGroups: the categories in order of first appearance.
CategoryList(d) == Dedup([i \in 1..Len(d) |-> d[i].category])

\* The entries of a dict that carry one category, in the dict's order.
InCategory(d, c) == SelectList(d, { d[i] : i \in { j \in 1..Len(d) : d[j].category = c } })

\* The check of one category: its size, then the running family counts.
CategoryError(d, c) ==
    LET members == InCategory(d, c)
        n == Len(members)
        count(k) == Cardinality({ j \in 1..k : members[j].family = members[k].family })
    IN  IF n < 2 THEN "Category has less than 2 participants"
        ELSE IF \E k \in 1..n : count(k) > n \div 2 THEN "Family has too many members"
        ELSE ""

validateInputData(d) ==
    LET badRecs == { i \in 1..Len(d) : RecordError(d, i) # "" }
        cats == CategoryList(d)
        badCats == { k \in 1..Len(cats) : CategoryError(d, cats[k]) # "" }
        least(S) == CHOOSE x \in S : \A y \in S : x <= y
    IN  IF Len(d) < 2 THEN [ok |-> FALSE, msg |-> "Need at least 2 participants"]
        ELSE IF badRecs # {} THEN [ok |-> FALSE, msg |-> RecordError(d, least(badRecs))]
        ELSE IF badCats # {}
             THEN [ok |-> FALSE, msg |-> CategoryError(d, cats[least(badCats)])]
        ELSE [ok |-> TRUE, msg |-> "Validation successful"]

----------------------------------------------------------------------------
(* The matching functions. *)

\* Mutant of PotentialReceiverOk: the family test is left out.
PotentialReceiverOk_NoFamily(d, sender, receiver, m) ==
    /\ receiver # sender
    /\ Get(d, receiver).category = Get(d, sender).category
    /\ receiver \notin { m[s] : s \in DOMAIN m }

\* Mutant of PotentialReceiverOk: the category test is left out.
PotentialReceiverOk_NoCategory(d, sender, receiver, m) ==
    /\ receiver # sender
    /\ Get(d, receiver).family # Get(d, sender).family
    /\ receiver \notin { m[s] : s \in DOMAIN m }

\* SecretSanta.py, lines 38-45: may `receiver` be given to `sender`, m being
\* the matches made so far.
PotentialReceiverOk(d, sender, receiver, m) ==
    /\ receiver # sender
    /\ Get(d, receiver).family # Get(d, sender).family
    /\ Get(d, receiver).category = Get(d, sender).category
    /\ receiver \notin { m[s] : s \in DOMAIN m }

\* dict[key] = value on a mapping.
MapSet(m, key, value) ==
    [k \in DOMAIN m \cup {key} |-> IF k = key THEN value ELSE m[k]]

\* dict.update().
MapUpdate(m, n) ==
    [k \in DOMAIN m \cup DOMAIN n |-> IF k \in DOMAIN n THEN n[k] ELSE m[k]]

\* SecretSanta.py, the sender loop of match_secret_santa from position i on,
\* es being the shuffled list of emails.
RECURSIVE SenderLoop(_, _, _, _)
SenderLoop(d, es, i, m) ==
    IF i > Len(es) THEN Some(m)
    ELSE LET sender == es[i]
             ok == { j \in 1..Len(es) : PotentialReceiverOk(d, sender, es[j], m) }
         IN  IF ok = {} THEN None
             ELSE LET first == CHOOSE j \in ok : \A k \in ok : j <= k
                  IN  SenderLoop(d, es, i + 1, MapSet(m, sender, es[first]))

\* SecretSanta.py, match_secret_santa, given the outcome of random.shuffle.
match_secret_santa(d, shuffled) == SenderLoop(d, shuffled, 1, EmptyMap)

\* Mutant of StartPoint: the attempt index is not divided by 3.
StartPoint_NoDiv(a, n) == a % n

\* SecretSantaGenerator.py, line 229.
StartPoint(a, n) == (a \div 3) % n

\* SecretSantaGenerator.py, lines 219-236: the processing order of attempt a,
\* `shuffled` being the outcome of random.shuffle.
SenderOrder(d, a, shuffled) ==
    IF a % 3 = 0 THEN shuffled
    ELSE IF a % 3 = 1
         THEN LET sorted == Sorted(Keys(d))
                  startPoint == StartPoint(a, Len(sorted))
              IN  SubSeq(sorted, startPoint + 1, Len(sorted)) \o SubSeq(sorted, 1, startPoint)
         ELSE Reverse(Keys(d))

\* Mutant of ValidReceivers: the filter is left out.
ValidReceivers_Unfiltered(d, sender, remaining) == remaining

\* Mutant of ValidReceivers: the family comparison is inverted.
ValidReceivers_SameFamily(d, sender, remaining) ==
    SelectList(remaining,
               { r \in Range(remaining) :
                    r # sender /\ Get(d, r).family = Get(d, sender).family })

\* SecretSantaGenerator.py, lines 246-250.
ValidReceivers(d, sender, remaining) ==
    SelectList(remaining,
               { r \in Range(remaining) :
                    r # sender /\ Get(d, r).family # Get(d, sender).family })

\* Mutant of NoMatch: the partial mapping is handed back.
NoMatch_Partial(m) == [none |-> FALSE, map |-> m]

\* The value `return None` hands back (line 258).
NoMatch(m) == None

\* The value `return matches` hands back (line 271).
Matched(m) == Some(m)

----------------------------------------------------------------------------
(* Inputs. *)

Max(S) == IF S = {} THEN 0 ELSE CHOOSE x \in S : \A y \in S : y <= x

\* Tag lists of length n over 1..m, up to renaming of the tags: a tag is at
\* most one more than the tags before it.
Canonical(n, m) ==
    { t \in [1..n -> 1..m] : \A i \in 1..n : t[i] <= 1 + Max({ t[j] : j \in 1..(i - 1) }) }

DictsOver(keys) ==
    { [i \in 1..Len(keys) |->
          [email |-> keys[i], firstName |-> 1, lastName |-> 1,
           family |-> f[i], category |-> c[i]]] :
      f \in Canonical(Len(keys), NumFamilies), c \in Canonical(Len(keys), NumCategories) }

\* The dicts readInputFile can return from files of well-formed records.
InputDicts == UNION { DictsOver(keys) : keys \in UNION { Orderings(S) : S \in SUBSET Emails } }

\* The lines the input file is made of.
FileLines ==
    [email : LoadEmails, firstName : {0, 1}, lastName : {1},
     family : 0..NumFamilies, category : 0..NumCategories]

NotValidated == [ok |-> FALSE, msg |-> ""]
NoSender == <<>>

----------------------------------------------------------------------------
(* readInputFile and validateInputData, line by line. *)

loadVars == <<linesRead, dupRead>>
cohortVars == <<cohorts, cohortIdx, attempt, allMatches>>
attemptVars == <<emails, idx, matches, remainingReceivers, blocked>>

\* SecretSantaGenerator.py, lines 56-63: one line of five fields.
ReadLine ==
    /\ pc = "read"
    /\ linesRead < MaxLines
    /\ \E line \in FileLines :
          /\ participants' = DictSet(participants, line)
          /\ dupRead' = (dupRead \/ line.email \in Range(Keys(participants)))
    /\ linesRead' = linesRead + 1
    /\ UNCHANGED <<prog, pc, validation, cohortVars, attemptVars, ret, outcome>>

\* Line 57 on a line that does not split into five fields: the ValueError
\* reaches main's handler (lines 334-337), which returns False.
ReadMalformedLine ==
    /\ pc = "read"
    /\ linesRead < MaxLines
    /\ linesRead' = linesRead + 1
    /\ pc' = "done"
    /\ outcome' = "failure"
    /\ UNCHANGED <<prog, participants, dupRead, validation, cohortVars,
                   attemptVars, ret>>

\* Line 64: the end of the file.
EndOfFile ==
    /\ pc = "read"
    /\ pc' = "loaded"
    /\ UNCHANGED <<prog, participants, loadVars, validation, cohortVars,
                   attemptVars, ret, outcome>>

\* validateInputData on the loaded dict.
Validate ==
    /\ pc = "loaded"
    /\ validation' = validateInputData(participants)
    /\ pc' = "validated"
    /\ UNCHANGED <<prog, participants, loadVars, cohortVars, attemptVars, ret, outcome>>

----------------------------------------------------------------------------
(* SecretSanta.py: secret_santa. *)

\* Lines 89-91: one call of match_secret_santa.
SS_Match ==
    /\ prog = "SecretSanta"
    /\ pc = "loop"
    /\ \E shuffled \in Orderings(Range(Keys(participants))) :
          ret' = match_secret_santa(participants, shuffled)
    /\ pc' = "check"
    /\ UNCHANGED <<prog, participants, loadVars, validation, cohortVars,
                   attemptVars, outcome>>

\* Lines 93 and 112-113: `if matches:` and the retry.  The loop has no
\* counter; `matches` is dead until the next call assigns it.
SS_Check ==
    /\ prog = "SecretSanta"
    /\ pc = "check"
    /\ IF Truthy(ret)
       THEN pc' = "confirm" /\ ret' = ret
       ELSE pc' = "loop" /\ ret' = None
    /\ UNCHANGED <<prog, participants, loadVars, validation, cohortVars,
                   attemptVars, outcome>>

\* Lines 101-111: the operator's answer.
SS_Confirm ==
    /\ prog = "SecretSanta"
    /\ pc = "confirm"
    /\ \E confirmation \in {"y", "n", "?"} :
          IF confirmation = "y"
          THEN pc' = "done" /\ outcome' = "success" /\ ret' = ret
          ELSE pc' = "loop" /\ outcome' = outcome /\ ret' = None
    /\ UNCHANGED <<prog, participants, loadVars, validation, cohortVars, attemptVars>>

----------------------------------------------------------------------------
(* SecretSantaGenerator.py: main, matchSecretSanta, matchSecretSantaInCategory. *)

\* Line 344: main calls matchSecretSanta.
Main_Call ==
    /\ prog = "SecretSantaGenerator"
    /\ pc = "loaded"
    /\ pc' = "mss_start"
    /\ UNCHANGED <<prog, participants, loadVars, validation, cohortVars,
                   attemptVars, ret, outcome>>

\* matchSecretSanta: the pre-check, which may be left out.
MSS_Precheck ==
    /\ pc = "mss_start"
    /\ IF validateInputData(participants).ok
       THEN pc' = "mss_partition" /\ ret' = ret
       ELSE pc' = "main_check" /\ ret' = None
    /\ UNCHANGED <<prog, participants, loadVars, validation, cohortVars,
                   attemptVars, outcome>>

\* matchSecretSanta: one cohort per category.
MSS_Partition ==
    /\ pc \in {"mss_start", "mss_partition"}
    /\ cohorts' = LET cats == CategoryList(participants)
                  IN  [k \in 1..Len(cats) |-> InCategory(participants, cats[k])]
    /\ cohortIdx' = 1
    /\ attempt' = 0
    /\ allMatches' = EmptyMap
    /\ pc' = "cohort"
    /\ UNCHANGED <<prog, participants, loadVars, validation, attemptVars, ret, outcome>>

\* matchSecretSanta: the next attempt, the end of the budget, or the end of
\* the cohorts.
MSS_Cohort ==
    /\ pc = "cohort"
    /\ IF cohortIdx > Len(cohorts)
       THEN pc' = "main_check" /\ ret' = Some(allMatches)
       ELSE IF attempt >= MaxAttempts
            THEN pc' = "main_check" /\ ret' = None
            ELSE pc' = "msic_start" /\ ret' = ret
    /\ UNCHANGED <<prog, participants, loadVars, validation, cohortVars,
                   attemptVars, outcome>>

\* matchSecretSantaInCategory, lines 218-239.
MSIC_Start ==
    /\ pc = "msic_start"
    /\ \E shuffled \in Orderings(Range(Keys(cohorts[cohortIdx]))) :
          /\ emails' = SenderOrder(cohorts[cohortIdx], attempt, shuffled)
          /\ remainingReceivers' = emails'
    /\ matches' = EmptyMap
    /\ idx' = 1
    /\ blocked' = NoSender
    /\ pc' = "msic_loop"
    /\ UNCHANGED <<prog, participants, loadVars, validation, cohortVars, ret, outcome>>

\* matchSecretSantaInCategory, lines 242-263: one sender.
MSIC_Step ==
    /\ pc = "msic_loop"
    /\ idx <= Len(emails)
    /\ LET sender == emails[idx]
           validReceivers == ValidReceivers(cohorts[cohortIdx], sender, remainingReceivers)
       IN  IF validReceivers = <<>>
           THEN /\ ret' = NoMatch(matches)
                /\ blocked' = sender
                /\ pc' = "msic_ret"
                /\ emails' = <<>>
                /\ idx' = 0
                /\ matches' = EmptyMap
                /\ remainingReceivers' = <<>>
           ELSE /\ \E receiver \in Range(validReceivers) :
                      /\ matches' = MapSet(matches, sender, receiver)
                      /\ remainingReceivers' = Remove(remainingReceivers, receiver)
                /\ idx' = idx + 1
                /\ UNCHANGED <<emails, blocked, ret, pc>>
    /\ UNCHANGED <<prog, participants, loadVars, validation, cohortVars, outcome>>

\* matchSecretSantaInCategory, lines 269-271.
MSIC_Return ==
    /\ pc = "msic_loop"
    /\ idx > Len(emails)
    /\ ret' = Matched(matches)
    /\ pc' = "msic_ret"
    /\ emails' = <<>>
    /\ idx' = 0
    /\ matches' = EmptyMap
    /\ remainingReceivers' = <<>>
    /\ UNCHANGED <<prog, participants, loadVars, validation, cohortVars, blocked, outcome>>

\* matchSecretSanta: a failed attempt is retried with the next index, a
\* mapping is merged and the next cohort is taken up.
MSS_AfterAttempt ==
    /\ pc = "msic_ret"
    /\ prog = "SecretSantaGenerator"
    /\ IF ret.none
       THEN /\ attempt' = attempt + 1
            /\ UNCHANGED <<cohortIdx, allMatches>>
       ELSE /\ allMatches' = MapUpdate(allMatches, ret.map)
            /\ cohortIdx' = cohortIdx + 1
            /\ attempt' = 0
    /\ ret' = None
    /\ blocked' = NoSender
    /\ pc' = "cohort"
    /\ UNCHANGED <<prog, participants, loadVars, validation, cohorts, emails, idx,
                   matches, remainingReceivers, outcome>>

\* main, lines 346-370: `if matches:`.
Main_Check ==
    /\ pc = "main_check"
    /\ outcome' = IF Truthy(ret) THEN "success" ELSE "failure"
    /\ pc' = "done"
    /\ UNCHANGED <<prog, participants, loadVars, validation, cohortVars,
                   attemptVars, ret>>

----------------------------------------------------------------------------
(* Specifications. *)

Idle ==
    /\ linesRead = 0
    /\ dupRead = FALSE
    /\ validation = NotValidated
    /\ cohorts = <<>>
    /\ cohortIdx = 0
    /\ attempt = 0
    /\ emails = <<>>
    /\ idx = 0
    /\ matches = EmptyMap
    /\ remainingReceivers = <<>>
    /\ blocked = NoSender
    /\ ret = None
    /\ allMatches = EmptyMap
    /\ outcome = "running"

\* Either script, after readInputFile has returned a dict of well-formed records.
Init ==
    /\ prog \in {"SecretSanta", "SecretSantaGenerator"}
    /\ pc = IF prog = "SecretSanta" THEN "loop" ELSE "loaded"
    /\ participants \in InputDicts
    /\ Idle

NextSS == SS_Match \/ SS_Check \/ SS_Confirm

NextGen ==
    \/ Main_Call \/ MSS_Precheck \/ MSS_Partition \/ MSS_Cohort
    \/ MSIC_Start \/ MSIC_Step \/ MSIC_Return \/ MSS_AfterAttempt \/ Main_Check

Next == NextSS \/ NextGen

Spec == Init /\ [][Next]_vars

\* The scripts are sequential programs: a step that can be taken is taken.
FairSpec == Spec /\ WF_vars(Next)

\* SecretSantaGenerator.py from the start of readInputFile to the verdict of
\* validateInputData.
InitLoad ==
    /\ prog = "SecretSantaGenerator"
    /\ pc = "read"
    /\ participants = <<>>
    /\ Idle

NextLoad == ReadLine \/ ReadMalformedLine \/ EndOfFile \/ Validate

SpecLoad == InitLoad /\ [][NextLoad]_vars

\* validateInputData on every dict of well-formed records.
InitValidate ==
    /\ prog = "SecretSantaGenerator"
    /\ pc = "loaded"
    /\ participants \in InputDicts
    /\ Idle

SpecValidate == InitValidate /\ [][Validate]_vars

\* matchSecretSantaInCategory's ordering of one cohort, for every attempt index.
InitOrder ==
    /\ prog = "SecretSantaGenerator"
    /\ pc = "msic_start"
    /\ \E d \in InputDicts :
          /\ Len(d) >= 1
          /\ \A i \in 1..Len(d) : d[i].category = 1
          /\ participants = d
          /\ cohorts = <<d>>
    /\ cohortIdx = 1
    /\ attempt \in 0..MaxAttemptIndex
    /\ linesRead = 0
    /\ dupRead = FALSE
    /\ validation = NotValidated
    /\ emails = <<>>
    /\ idx = 0
    /\ matches = EmptyMap
    /\ remainingReceivers = <<>>
    /\ blocked = NoSender
    /\ ret = None
    /\ allMatches = EmptyMap
    /\ outcome = "running"

SpecOrder == InitOrder /\ [][MSIC_Start]_vars

----------------------------------------------------------------------------
(* Properties. *)

\* A matching function has just returned a mapping.
ReturnedMapping ==
    /\ \/ pc = "msic_ret"
       \/ prog = "SecretSanta" /\ pc = "check"
    /\ ~ret.none

\* The dict the returning call was given.
CalledWith == IF prog = "SecretSanta" THEN participants ELSE cohorts[cohortIdx]

Identities(d) == { d[i].email : i \in 1..Len(d) }

\* C1: a returned mapping is a bijection on the identities it was called
\* with: the senders are all of them, the receivers are all of them, and no
\* receiver is given twice.
C1_Bijection ==
    ReturnedMapping =>
        LET m == ret.map
            ids == Identities(CalledWith)
        IN  /\ DOMAIN m = ids
            /\ { m[s] : s \in DOMAIN m } = ids
            /\ \A s, t \in DOMAIN m : s # t => m[s] # m[t]

C1_Witness ==
    /\ ReturnedMapping
    /\ prog = "SecretSantaGenerator"
    /\ Len(CalledWith) = 4

\* C2: in a returned mapping nobody is assigned to themselves.
C2_NoSelf ==
    ReturnedMapping => \A s \in DOMAIN ret.map : ret.map[s] # s

C2_Witness ==
    /\ ReturnedMapping
    /\ prog = "SecretSantaGenerator"
    /\ Len(CalledWith) = 3
    /\ attempt = 0

\* C3: in a returned mapping the sender's family differs from the receiver's.
C3_Family ==
    ReturnedMapping =>
        \A s \in DOMAIN ret.map :
            Get(participants, s).family # Get(participants, ret.map[s]).family

C3_Witness ==
    /\ ReturnedMapping
    /\ prog = "SecretSanta"
    /\ Len(participants) = 4
    /\ \E i, j \in 1..Len(participants) :
          i # j /\ participants[i].family = participants[j].family

\* C4: in a returned mapping the sender's category is the receiver's.
C4_Category ==
    ReturnedMapping =>
        \A s \in DOMAIN ret.map :
            Get(participants, s).category = Get(participants, ret.map[s]).category

C4_Witness ==
    /\ ReturnedMapping
    /\ prog = "SecretSanta"
    /\ \E i, j \in 1..Len(participants) :
          participants[i].category # participants[j].category

\* Every email is well formed and every field is non-empty.
WellFormed(d) ==
    \A i \in 1..Len(d) :
        /\ validateEmail(d[i].email)
        /\ d[i].firstName # 0 /\ d[i].lastName # 0
        /\ d[i].family # 0 /\ d[i].category # 0

\* The members of category c, and those of them in family f.
Members(d, c) == { i \in 1..Len(d) : d[i].category = c }
FamilyMembers(d, c, f) == { i \in Members(d, c) : d[i].family = f }

SomeCategoryBelowTwo(d) ==
    \E i \in 1..Len(d) : Cardinality(Members(d, d[i].category)) < 2

SomeFamilyAboveHalf(d) ==
    \E i \in 1..Len(d) :
        2 * Cardinality(FamilyMembers(d, d[i].category, d[i].family))
            > Cardinality(Members(d, d[i].category))

\* C5: on well-formed records validateInputData fails exactly when some
\* category has fewer than 2 members or some family holds more than half of
\* a category.
C5_Validation ==
    (pc = "validated" /\ WellFormed(participants)) =>
        (~validation.ok <=>
            (SomeCategoryBelowTwo(participants) \/ SomeFamilyAboveHalf(participants)))

\* Some cohort admits no valid mapping: it has one member, or a family
\* holds a strict majority of it.
Unmatchable(d) ==
    \/ \E i \in 1..Len(d) : Cardinality(Members(d, d[i].category)) = 1
    \/ SomeFamilyAboveHalf(d)

\* C6: with a cohort that admits no mapping, the run ends with a reported
\* failure.
C6_BoundedRetry ==
    Unmatchable(participants) ~> (pc = "done" /\ outcome = "failure")

\* C7: when two lines of the file carry the same email, validation reports
\* an error.
C7_DuplicateRejected ==
    (pc = "validated" /\ dupRead) => ~validation.ok

\* C8: an empty participant set ends as a success.
C8_EmptySuccess ==
    (participants = <<>> /\ pc = "done") => outcome = "success"


\* The number of identities of S that come before e in lexicographic order.
LexRank(e, S) == Cardinality({ x \in S : LexLess(x, e) })

\* An attempt has just fixed its processing order.
Ordered == pc = "msic_loop" /\ idx = 1 /\ matches = EmptyMap

\* The processing order of strategy 1: the sorted identities rotated left by
\* (attempt div 3) mod cohortSize; and of strategy 0: each identity once.
RotatedOrder ==
    LET ids == Identities(cohorts[cohortIdx])
        n == Cardinality(ids)
    IN  /\ Len(emails) = n
        /\ attempt % 3 = 1 =>
              \A i \in 1..n : LexRank(emails[i], ids) = (i - 1 + ((attempt \div 3) % n)) % n
        /\ attempt % 3 = 0 =>
              /\ Range(emails) = ids
              /\ \A i, j \in 1..n : i # j => emails[i] # emails[j]

\* C9 as claimed: strategy 2 processes the identities in reverse
\* lexicographic order, whatever order the cohort was supplied in.
C9_ReverseLexicographic ==
    Ordered =>
        /\ RotatedOrder
        /\ attempt % 3 = 2 =>
              LET ids == Identities(cohorts[cohortIdx])
              IN  \A i \in 1..Len(emails) :
                     LexRank(emails[i], ids) = Cardinality(ids) - i

\* C9 as amended: strategy 2 processes the identities in the reverse of the
\* order the cohort was supplied in.
C9_ReverseSupplied ==
    Ordered =>
        /\ RotatedOrder
        /\ attempt % 3 = 2 =>
              LET keys == Keys(cohorts[cohortIdx])
              IN  \A i \in 1..Len(emails) : emails[i] = keys[Len(keys) + 1 - i]

C9_Witness ==
    /\ Ordered
    /\ attempt % 3 = 2
    /\ LET keys == Keys(cohorts[cohortIdx])
       IN  /\ Len(keys) = 4
           /\ LexLess(keys[1], keys[2])
           /\ LexLess(keys[3], keys[2])

\* The receivers the sender at position idx may be given.
Candidates ==
    { r \in Range(remainingReceivers) :
         /\ r # emails[idx]
         /\ Get(participants, r).family # Get(participants, emails[idx]).family }

\* C10: an attempt takes the senders in order without backtracking; a sender
\* with no candidate ends it with None and no mapping, any other sender is
\* given one of its candidates, which leaves the available set; None is
\* returned exactly when a sender was blocked, and a returned mapping has
\* every member of the cohort as a sender.
C10_Greedy ==
    /\ [](pc = "msic_loop" =>
            /\ DOMAIN matches = { emails[j] : j \in 1..(idx - 1) }
            /\ Range(remainingReceivers) =
                  Range(emails) \ { matches[s] : s \in DOMAIN matches })
    /\ [][(pc = "msic_loop" /\ idx <= Len(emails)) =>
            IF Candidates = {}
            THEN pc' = "msic_ret" /\ ret' = None /\ blocked' = emails[idx]
            ELSE /\ pc' = "msic_loop"
                 /\ idx' = idx + 1
                 /\ emails' = emails
                 /\ \E r \in Candidates :
                       /\ matches' = MapSet(matches, emails[idx], r)
                       /\ Range(remainingReceivers') = Range(remainingReceivers) \ {r}
                       /\ Len(remainingReceivers') = Len(remainingReceivers) - 1]_vars
    /\ [](pc = "msic_ret" =>
            /\ ret.none <=> blocked # NoSender
            /\ ~ret.none => DOMAIN ret.map = Identities(cohorts[cohortIdx]))

\* A sender is blocked in a cohort of three families of one member each,
\* after earlier senders took the receivers it could have had.
C10_Witness ==
    /\ pc = "msic_ret"
    /\ ret.none
    /\ blocked # NoSender
    /\ LET d == cohorts[cohortIdx]
       IN  /\ Len(d) = 3
           /\ \A i, j \in 1..3 : i # j => d[i].family # d[j].family


\* The cohort passes the pre-check: at least 2 members, no family above half.
PassesPrecheck(d) ==
    /\ Len(d) >= 2
    /\ ~SomeCategoryBelowTwo(d)
    /\ ~SomeFamilyAboveHalf(d)

\* The cohort admits a valid bijection: every member gives to another
\* member of another family and no member receives twice.
HasValidBijection(d) ==
    \E f \in Orderings(Identities(d)) :
        \A i \in 1..Len(d) :
            /\ f[i] # d[i].email
            /\ Get(d, f[i]).family # d[i].family

\* The members of the cohort the sender could be given: another person of
\* another family.
Compatible(d, sender) ==
    { r \in Identities(d) : r # sender /\ Get(d, r).family # Get(d, sender).family }

\* C11: the greedy attempt is incomplete.  On a cohort that passes the
\* pre-check and admits a valid bijection an attempt can return None, and it
\* does so only by stranding a later sender: the blocked sender has
\* compatible receivers in the cohort, and earlier senders took all of them.
C11_Stranding ==
    [][(/\ pc = "msic_loop"
        /\ pc' = "msic_ret"
        /\ ret'.none
        /\ PassesPrecheck(cohorts[cohortIdx])
        /\ HasValidBijection(cohorts[cohortIdx]))
       => /\ idx > 1
          /\ blocked' = emails[idx]
          /\ Compatible(cohorts[cohortIdx], emails[idx]) # {}
          /\ Compatible(cohorts[cohortIdx], emails[idx])
                \subseteq { matches[s] : s \in DOMAIN matches }]_vars

\* An attempt returned None on the cohort A(F1), B(F2), C(F3), D(F1), which
\* passes the pre-check and admits a valid bijection.
C11_Witness ==
    /\ pc = "msic_ret"
    /\ ret.none
    /\ LET d == cohorts[cohortIdx]
       IN  /\ Len(d) = 4
           /\ d[1].family = d[4].family
           /\ d[2].family # d[1].family
           /\ d[3].family # d[1].family
           /\ d[3].family # d[2].family
           /\ PassesPrecheck(d)
           /\ HasValidBijection(d)
           /\ Compatible(d, blocked) # {}

====
